---- MODULE Spec2Model ----
(***************************************************************************)
(* Model of the kubo_rpc client layer of crdt-dir-ipfs: the validated      *)
(* identifier wrappers IpfsCid and IpnsKey, the IpfsPath union, the        *)
(* line-delimited decoder behind name_resolve_streaming, and the single    *)
(* shot calls get_block, put_block and generate_ipns_key.                  *)
(*                                                                         *)
(* Texts are sequences of one-character strings and binary data is a       *)
(* sequence of bytes (0..255), so that the base encodings are computed     *)
(* digit by digit, as the cid and multibase libraries compute them.        *)
(***************************************************************************)
EXTENDS Integers, Sequences, FiniteSets, TLC

(***************************************************************************)
(* Results of fallible operations.                                         *)
(***************************************************************************)
Ok(v) == [ok |-> TRUE, val |-> v]

Err(e) == [ok |-> FALSE, err |-> e]

(***************************************************************************)
(* Sequence helpers.                                                       *)
(***************************************************************************)
Drop(s, n) == SubSeq(s, n + 1, Len(s))

Take(s, n) == SubSeq(s, 1, n)

StartsWith(s, p) == Len(s) >= Len(p) /\ Take(s, Len(p)) = p

\* Index of the first occurrence of p in s, or 0: str::find.
Find(s, p) ==
    LET hits == {i \in 1..(Len(s) - Len(p) + 1) : SubSeq(s, i, i + Len(p) - 1) = p}
    IN IF hits = {} THEN 0 ELSE CHOOSE i \in hits : \A j \in hits : i <= j

\* Position of character c in an alphabet, or 0.
IndexOf(alphabet, c) ==
    LET hits == {i \in 1..Len(alphabet) : alphabet[i] = c}
    IN IF hits = {} THEN 0 ELSE CHOOSE i \in hits : TRUE

(***************************************************************************)
(* The alphabets of the three multibase encodings the model covers.        *)
(***************************************************************************)
Base58BtcAlphabet ==
    <<"1","2","3","4","5","6","7","8","9","A","B","C","D","E","F","G","H","J","K","L","M","N",
    "P","Q","R","S","T","U","V","W","X","Y","Z","a","b","c","d","e","f","g","h","i","j","k","m",
    "n","o","p","q","r","s","t","u","v","w","x","y","z">>

Base36LowerAlphabet ==
    <<"0","1","2","3","4","5","6","7","8","9","a","b","c","d","e","f","g","h","i","j","k","l",
    "m","n","o","p","q","r","s","t","u","v","w","x","y","z">>

Base16LowerAlphabet ==
    <<"0","1","2","3","4","5","6","7","8","9","a","b","c","d","e","f">>

(***************************************************************************)
(* Positional encodings over an alphabet (base-x): the bytes are read as   *)
(* one big-endian number, converted by long division, and every leading    *)
(* zero byte becomes one leading zero digit.                               *)
(*                                                                         *)
(* The loops run in stretches of eight steps, each stretch handing its     *)
(* result to the next, and each step checks the range of the value it      *)
(* computed before going on, so the evaluation stays shallow.              *)
(***************************************************************************)
RECURSIVE LeadingCount(_, _)
LeadingCount(s, z) ==
    IF s # <<>> /\ Head(s) = z THEN 1 + LeadingCount(Tail(s), z) ELSE 0

RECURSIVE Repeat(_, _)
Repeat(x, n) == IF n = 0 THEN <<>> ELSE <<x>> \o Repeat(x, n - 1)

Min(a, b) == IF a < b THEN a ELSE b

Max(a, b) == IF a > b THEN a ELSE b

\* Long division of bytes[i..hi] by radix, carry being the remainder so far.
RECURSIVE DivRun(_, _, _, _, _, _)
DivRun(bytes, i, hi, radix, carry, acc) ==
    IF i > hi
    THEN [acc |-> acc, carry |-> carry]
    ELSE LET cur == carry * 256 + bytes[i]
         IN IF cur < 256 * radix
            THEN DivRun(bytes, i + 1, hi, radix, cur % radix, Append(acc, cur \div radix))
            ELSE [acc |-> <<>>, carry |-> 0]

\* bytes \div radix and bytes % radix, for a big-endian byte string.
RECURSIVE DivStep(_, _, _, _, _)
DivStep(bytes, i, radix, carry, acc) ==
    IF i > Len(bytes)
    THEN [q |-> acc, r |-> carry]
    ELSE LET run == DivRun(bytes, i, Min(i + 7, Len(bytes)), radix, carry, acc)
         IN DivStep(bytes, i + 8, radix, run.carry, run.acc)

\* At most n more digits of bytes, least significant first, put before acc.
RECURSIVE DigitsRun(_, _, _, _)
DigitsRun(bytes, radix, n, acc) ==
    LET b == Drop(bytes, LeadingCount(bytes, 0))
    IN IF b = <<>> \/ n = 0
       THEN [rest |-> b, acc |-> acc]
       ELSE LET d == DivStep(b, 1, radix, 0, <<>>)
            IN IF d.r < radix
               THEN DigitsRun(d.q, radix, n - 1, <<d.r>> \o acc)
               ELSE [rest |-> <<>>, acc |-> <<>>]

\* The digits of a big-endian byte string in the radix, most significant first.
RECURSIVE ToDigits(_, _, _)
ToDigits(bytes, radix, acc) ==
    LET run == DigitsRun(bytes, radix, 8, acc)
    IN IF run.rest = <<>> THEN run.acc ELSE ToDigits(run.rest, radix, run.acc)

BaseXEncode(alphabet, bytes) ==
    LET digits == ToDigits(bytes, Len(alphabet), <<>>)
    IN Repeat(alphabet[1], LeadingCount(bytes, 0))
         \o [i \in 1..Len(digits) |-> alphabet[digits[i] + 1]]

\* bytes[lo..i] * radix + carry, the product's bytes put before acc.
RECURSIVE MulRun(_, _, _, _, _, _)
MulRun(bytes, lo, i, radix, carry, acc) ==
    IF i < lo
    THEN [acc |-> acc, carry |-> carry]
    ELSE LET cur == bytes[i] * radix + carry
         IN IF cur < 256 * radix
            THEN MulRun(bytes, lo, i - 1, radix, cur \div 256, <<cur % 256>> \o acc)
            ELSE [acc |-> <<>>, carry |-> 0]

\* bytes * radix + carry, for a big-endian byte string.
RECURSIVE MulStep(_, _, _, _, _)
MulStep(bytes, i, radix, carry, acc) ==
    IF i = 0
    THEN IF carry = 0 THEN acc ELSE <<carry>> \o acc
    ELSE LET run == MulRun(bytes, Max(i - 7, 1), i, radix, carry, acc)
         IN MulStep(bytes, Max(i - 7, 1) - 1, radix, run.carry, run.acc)

\* acc * radix^k + digits[i..hi], k being the number of those digits.
RECURSIVE DigitRun(_, _, _, _, _)
DigitRun(digits, i, hi, radix, acc) ==
    IF i > hi
    THEN acc
    ELSE LET next == MulStep(acc, Len(acc), radix, digits[i], <<>>)
         IN IF Len(next) >= Len(acc) THEN DigitRun(digits, i + 1, hi, radix, next) ELSE <<>>

\* The big-endian byte string of the number the digits write in the radix.
RECURSIVE FromDigits(_, _, _, _)
FromDigits(digits, i, radix, acc) ==
    IF i > Len(digits)
    THEN acc
    ELSE LET run == DigitRun(digits, i, Min(i + 7, Len(digits)), radix, acc)
         IN IF Len(run) >= Len(acc) THEN FromDigits(digits, i + 8, radix, run) ELSE <<>>

BaseXDecode(alphabet, text) ==
    IF \E i \in 1..Len(text) : IndexOf(alphabet, text[i]) = 0
    THEN Err("InvalidBaseString")
    ELSE LET digits == [i \in 1..Len(text) |-> IndexOf(alphabet, text[i]) - 1]
             zeros == LeadingCount(digits, 0)
         IN Ok(Repeat(0, zeros) \o FromDigits(Drop(digits, zeros), 1, Len(alphabet), <<>>))

\* Base16: two digits per byte, most significant first.
Base16Encode(bytes) ==
    [i \in 1..(2 * Len(bytes)) |->
        LET b == bytes[(i + 1) \div 2]
        IN Base16LowerAlphabet[(IF i % 2 = 1 THEN b \div 16 ELSE b % 16) + 1]]

Base16Decode(text) ==
    IF Len(text) % 2 # 0 \/ \E i \in 1..Len(text) : IndexOf(Base16LowerAlphabet, text[i]) = 0
    THEN Err("InvalidBaseString")
    ELSE Ok([i \in 1..(Len(text) \div 2) |->
                16 * (IndexOf(Base16LowerAlphabet, text[2 * i - 1]) - 1)
                   + (IndexOf(Base16LowerAlphabet, text[2 * i]) - 1)])

(***************************************************************************)
(* Base32 lower case without padding (RFC 4648): the bits of the bytes,    *)
(* most significant first, in groups of five; the last group is filled     *)
(* with zero bits.  Decoding refuses a length that leaves five or more     *)
(* bits over, and bits left over that are not zero.                        *)
(***************************************************************************)
Base32LowerAlphabet ==
    <<"a", "b", "c", "d", "e", "f", "g", "h", "i", "j", "k", "l", "m", "n", "o", "p", "q", "r",
    "s", "t", "u", "v", "w", "x", "y", "z", "2", "3", "4", "5", "6", "7">>

\* Bit k (from 0) of a sequence of groups of `width` bits; 0 past its end.
BitAt(groups, width, k) ==
    IF k >= width * Len(groups) THEN 0
    ELSE (groups[(k \div width) + 1] \div 2 ^ (width - 1 - (k % width))) % 2

Base32Encode(bytes) ==
    [i \in 1..((8 * Len(bytes) + 4) \div 5) |->
        Base32LowerAlphabet[
            1 + 16 * BitAt(bytes, 8, 5 * i - 5) + 8 * BitAt(bytes, 8, 5 * i - 4)
              + 4 * BitAt(bytes, 8, 5 * i - 3) + 2 * BitAt(bytes, 8, 5 * i - 2)
              + BitAt(bytes, 8, 5 * i - 1)]]

Base32Decode(text) ==
    IF \E i \in 1..Len(text) : IndexOf(Base32LowerAlphabet, text[i]) = 0
    THEN Err("InvalidBaseString")
    ELSE LET digits == [i \in 1..Len(text) |-> IndexOf(Base32LowerAlphabet, text[i]) - 1]
             n == (5 * Len(text)) \div 8
         IN IF 5 * Len(text) - 8 * n >= 5
               \/ \E k \in (8 * n)..(5 * Len(text) - 1) : BitAt(digits, 5, k) # 0
            THEN Err("InvalidBaseString")
            ELSE Ok([i \in 1..n |->
                        128 * BitAt(digits, 5, 8 * i - 8) + 64 * BitAt(digits, 5, 8 * i - 7)
                          + 32 * BitAt(digits, 5, 8 * i - 6) + 16 * BitAt(digits, 5, 8 * i - 5)
                          + 8 * BitAt(digits, 5, 8 * i - 4) + 4 * BitAt(digits, 5, 8 * i - 3)
                          + 2 * BitAt(digits, 5, 8 * i - 2) + BitAt(digits, 5, 8 * i - 1)])

(***************************************************************************)
(* multibase: the first character of a text names the base of the rest.    *)
(* Of the bases multibase knows, the model covers base58btc ("z"),         *)
(* base36 lower case ("k"), base16 lower case ("f") and base32 lower case  *)
(* ("b"), in which the daemon writes version 1 identifiers; no input of    *)
(* the model starts with the code of another base.                         *)
(***************************************************************************)
BaseCodes == {"z", "k", "f"}

MultibaseEncode(base, bytes) ==
    CASE base = "z" -> <<"z">> \o BaseXEncode(Base58BtcAlphabet, bytes)
      [] base = "k" -> <<"k">> \o BaseXEncode(Base36LowerAlphabet, bytes)
      [] base = "f" -> <<"f">> \o Base16Encode(bytes)
      [] base = "b" -> <<"b">> \o Base32Encode(bytes)

MultibaseDecode(text) ==
    IF text = <<>> THEN Err("InvalidBaseString")
    ELSE CASE Head(text) = "z" -> BaseXDecode(Base58BtcAlphabet, Tail(text))
           [] Head(text) = "k" -> BaseXDecode(Base36LowerAlphabet, Tail(text))
           [] Head(text) = "f" -> Base16Decode(Tail(text))
           [] Head(text) = "b" -> Base32Decode(Tail(text))
           [] OTHER -> Err("UnknownBase")

(***************************************************************************)
(* unsigned-varint: seven bits per byte, least significant group first,    *)
(* the high bit set on every byte but the last.                            *)
(***************************************************************************)
VarintEncode(n) == IF n < 128 THEN <<n>> ELSE <<128 + (n % 128), n \div 128>>

\* Reads one varint at the head of bytes: [val, rest], or an error.
VarintRead(bytes) ==
    IF bytes = <<>> THEN Err("VarIntDecodeError")
    ELSE IF bytes[1] < 128 THEN Ok([val |-> bytes[1], rest |-> Tail(bytes)])
    ELSE IF Len(bytes) < 2 \/ bytes[2] >= 128 \/ bytes[2] = 0 THEN Err("VarIntDecodeError")
    ELSE Ok([val |-> (bytes[1] - 128) + 128 * bytes[2], rest |-> Drop(bytes, 2)])

(***************************************************************************)
(* The generic identifier, cid::Cid: a version, a codec tag and a          *)
(* multihash [code, digest].                                               *)
(***************************************************************************)
DagPb == 112

Raw == 85

Sha2_256 == 18

Sha2_256Len == 32

MaxDigestLen == 64

V0StrLen == 46

MultihashBytes(mh) == VarintEncode(mh.code) \o VarintEncode(Len(mh.digest)) \o mh.digest

\* Multihash::read: code, size, then size bytes of digest.
MultihashRead(bytes) ==
    LET code == VarintRead(bytes)
    IN IF ~code.ok THEN code
       ELSE LET size == VarintRead(code.val.rest)
            IN IF ~size.ok THEN size
               ELSE IF size.val.val > MaxDigestLen THEN Err("InvalidSize")
               ELSE IF Len(size.val.rest) < size.val.val THEN Err("UnexpectedEof")
               ELSE Ok([code |-> code.val.val, digest |-> Take(size.val.rest, size.val.val)])

CidV0(mh) == [version |-> 0, codec |-> DagPb, hash |-> mh]

CidV1(codec, mh) == [version |-> 1, codec |-> codec, hash |-> mh]

\* Cid::to_bytes
CidToBytes(cid) ==
    IF cid.version = 0 THEN MultihashBytes(cid.hash)
    ELSE VarintEncode(1) \o VarintEncode(cid.codec) \o MultihashBytes(cid.hash)

\* Cid::read_bytes: the fixed 0x12 0x20 prefix is a version 0 identifier,
\* anything else must say version 1.
CidReadBytes(bytes) ==
    LET version == VarintRead(bytes)
    IN IF ~version.ok THEN version
       ELSE LET codec == VarintRead(version.val.rest)
            IN IF ~codec.ok THEN codec
               ELSE IF version.val.val = Sha2_256 /\ codec.val.val = Sha2_256Len
               THEN IF Len(codec.val.rest) < Sha2_256Len THEN Err("UnexpectedEof")
                    ELSE Ok(CidV0([code |-> Sha2_256,
                                   digest |-> Take(codec.val.rest, Sha2_256Len)]))
               ELSE IF version.val.val # 1 THEN Err("InvalidCidVersion")
               ELSE LET mh == MultihashRead(codec.val.rest)
                    IN IF ~mh.ok THEN mh ELSE Ok(CidV1(codec.val.val, mh.val))

\* Version::is_v0_str
IsV0Str(text) == Len(text) = V0StrLen /\ StartsWith(text, <<"Q", "m">>)

\* Cid::from_str: whatever precedes and includes the first "/ipfs/" is
\* dropped; a version 0 text is bare base58btc, any other is multibase.
CidFromStr(text) ==
    LET at == Find(text, <<"/", "i", "p", "f", "s", "/">>)
        hash == IF at = 0 THEN text ELSE Drop(text, at + 5)
    IN IF Len(hash) < 2 THEN Err("InputTooShort")
       ELSE LET decoded == IF IsV0Str(hash) THEN BaseXDecode(Base58BtcAlphabet, hash)
                           ELSE MultibaseDecode(hash)
            IN IF ~decoded.ok THEN decoded ELSE CidReadBytes(decoded.val)

\* Cid::to_string_of_base: a version 0 identifier has only its base58btc form.
CidToStringOfBase(cid, base) ==
    IF cid.version = 0
    THEN IF base = "z" THEN Ok(BaseXEncode(Base58BtcAlphabet, MultihashBytes(cid.hash)))
         ELSE Err("InvalidCidV0Base")
    ELSE Ok(MultibaseEncode(base, CidToBytes(cid)))

(***************************************************************************)
(* IpfsCid (ipfs.rs) and IpnsKey (keys.rs): tuple structs over a Cid.      *)
(***************************************************************************)
LIBP2P_KEY_CODE == 114

\* The tuple constructors IpfsCid(cid) and IpnsKey(cid): the field is pub,
\* so they are callable wherever the types are visible.
IpfsCid(cid) == [type |-> "IpfsCid", cid |-> cid]

IpnsKey(cid) == [type |-> "IpnsKey", cid |-> cid]

\* impl TryFrom<Cid> for IpfsCid
IpfsCidTryFrom(cid) ==
    IF cid.codec \in {DagPb, Raw} THEN Ok(IpfsCid(cid))
    ELSE Err("Unsupported codec for IPFS CID")

IpnsKeyTryFromBug(cid) ==
    IF cid.codec \in {LIBP2P_KEY_CODE, DagPb} THEN Ok(IpnsKey(cid)) ELSE Err("Not an IPNS key")

\* impl TryFrom<Cid> for IpnsKey
IpnsKeyTryFrom(cid) ==
    IF cid.codec = LIBP2P_KEY_CODE THEN Ok(IpnsKey(cid)) ELSE Err("Not an IPNS key")

\* impl FromStr for IpfsCid
IpfsCidFromStr(text) ==
    LET cid == CidFromStr(text)
    IN IF ~cid.ok THEN Err("Invalid CID") ELSE IpfsCidTryFrom(cid.val)

\* impl FromStr for IpnsKey
IpnsKeyFromStr(text) ==
    LET cid == CidFromStr(text)
    IN IF ~cid.ok THEN Err("Invalid CID") ELSE IpnsKeyTryFrom(cid.val)

\* impl Display for IpfsCid: base58btc, or fmt::Error
IpfsCidFmt(key) == CidToStringOfBase(key.cid, "z")

\* impl Display for IpnsKey: base36 lower case, or fmt::Error
IpnsKeyFmt(key) == CidToStringOfBase(key.cid, "k")

(***************************************************************************)
(* IpfsPath (ipns.rs): Ipfs(IpfsCid) or Ipns(IpnsKey).                     *)
(***************************************************************************)
IpfsPrefix == <<"/", "i", "p", "f", "s", "/">>

IpnsPrefix == <<"/", "i", "p", "n", "s", "/">>

PathIpfs(cid) == [variant |-> "Ipfs", id |-> cid]

PathIpns(key) == [variant |-> "Ipns", id |-> key]

IpfsPathAsStrBug(path) ==
    LET text == IpfsCidFmt(path.id)
    IN IF ~text.ok THEN Err("panic") ELSE Ok(IpfsPrefix \o text.val)

\* IpfsPath::as_str.  format! panics when Display returns fmt::Error.
IpfsPathAsStr(path) ==
    LET text == IF path.variant = "Ipfs" THEN IpfsCidFmt(path.id) ELSE IpnsKeyFmt(path.id)
    IN IF ~text.ok THEN Err("panic")
       ELSE Ok((IF path.variant = "Ipfs" THEN IpfsPrefix ELSE IpnsPrefix) \o text.val)

IpfsPathFromStrBug(text) ==
    IF StartsWith(text, IpfsPrefix)
    THEN LET cid == IpfsCidFromStr(Drop(text, Len(IpfsPrefix)))
         IN IF ~cid.ok THEN Err("Invalid CID in /ipfs/ path") ELSE Ok(PathIpfs(cid.val))
    ELSE LET key == IpnsKeyFromStr(text)
         IN IF ~key.ok THEN Err("IPFS path must start with /ipfs/ or /ipns/")
            ELSE Ok(PathIpns(key.val))

\* impl FromStr for IpfsPath
IpfsPathFromStr(text) ==
    IF StartsWith(text, IpfsPrefix)
    THEN LET cid == IpfsCidFromStr(Drop(text, Len(IpfsPrefix)))
         IN IF ~cid.ok THEN Err("Invalid CID in /ipfs/ path") ELSE Ok(PathIpfs(cid.val))
    ELSE IF StartsWith(text, IpnsPrefix)
    THEN LET key == IpnsKeyFromStr(Drop(text, Len(IpnsPrefix)))
         IN IF ~key.ok THEN Err("Invalid IPNS key in /ipns/ path") ELSE Ok(PathIpns(key.val))
    ELSE Err("IPFS path must start with /ipfs/ or /ipns/")

(***************************************************************************)
(* Inputs.  The two identifier texts are those of the repository's tests;  *)
(* the other texts are a short multihash under every codec and base of the *)
(* model, with and without a path prefix, and the malformed texts of the   *)
(* tests.                                                                  *)
(***************************************************************************)
\* "QmdbWa3wBGwQ4suXjEpPkrigP3UmBMECdJNmkHfz6btqaJ" (ipfs.rs, test_valid_ipns_keys)
TestCidText ==
    <<"Q","m","d","b","W","a","3","w","B","G","w","Q","4","s","u","X","j","E","p","P","k","r",
    "i","g","P","3","U","m","B","M","E","C","d","J","N","m","k","H","f","z","6","b","t","q","a",
    "J">>

\* "k51qzi5uqu5dgndmfpeorlwuar7u66p9g9l0dolwy2v7sm6dt5sorjityev4ib" (keys.rs, test_valid_ipns_keys)
TestKeyText ==
    <<"k","5","1","q","z","i","5","u","q","u","5","d","g","n","d","m","f","p","e","o","r","l",
    "w","u","a","r","7","u","6","6","p","9","g","9","l","0","d","o","l","w","y","2","v","7","s",
    "m","6","d","t","5","s","o","r","j","i","t","y","e","v","4","i","b">>

Codecs == {Raw, DagPb, 113, LIBP2P_KEY_CODE}

\* A multihash of the identity function over one byte: the shortest there is.
SmallHash == [code |-> 0, digest |-> <<97>>]

SmallCidText == MultibaseEncode("z", CidToBytes(CidV1(Raw, SmallHash)))

SmallKeyText == MultibaseEncode("k", CidToBytes(CidV1(LIBP2P_KEY_CODE, SmallHash)))

IdTexts ==
    {TestCidText, TestKeyText}
      \cup {MultibaseEncode(b, CidToBytes(CidV1(c, SmallHash))) : b \in BaseCodes, c \in Codecs}

BadIdTexts ==
    {<<>>, <<"Q", "m">>, <<"z", "z">>, <<"n", "o", "t", "-", "a", "-", "c", "i", "d">>,
     Take(TestCidText, 45), Take(TestKeyText, 40)}

BadPrefixes ==
    {<<"/", "I", "P", "F", "S", "/">>, <<"/", "I", "P", "N", "S", "/">>,
     <<"/", "i", "p", "f", "s">>, <<"i", "p", "n", "s", "/">>, <<" ", "/", "i", "p", "n", "s", "/">>,
     <<"/", "f", "o", "o", "/">>}

InputTexts ==
    IdTexts \cup BadIdTexts
      \cup {p \o t : p \in {IpfsPrefix, IpnsPrefix}, t \in IdTexts \cup BadIdTexts}
      \cup {p \o t : p \in BadPrefixes, t \in {TestCidText, TestKeyText}}
      \cup {IpfsPrefix \o IpfsPrefix \o TestCidText, IpnsPrefix \o <<"x">> \o IpfsPrefix \o TestKeyText,
            <<"/", "f", "o", "o", "/", "b", "a", "r">>,
            <<"/", "i", "n", "v", "a", "l", "i", "d", "/", "p", "a", "t", "h">>}

(***************************************************************************)
(* State.  A caller of the identifier and path types holds one text and    *)
(* one value at a time and applies the public operations to them.          *)
(***************************************************************************)
VARIABLES
    text,     \* the text in hand: an input, or the output of as_str
    held,     \* the value in hand: [kind |-> "none"], or a Cid, wrapper or path
    op,       \* the last operation applied
    res,      \* its result
    origin    \* the path the text in hand was formatted from, if it was

idVars == <<text, held, op, res, origin>>

(***************************************************************************)
(* State of one name_resolve_streaming response: the bytes the daemon      *)
(* sends, the FramedRead that splits them into lines, and the items the    *)
(* consumer has pulled from the returned stream.                           *)
(***************************************************************************)
VARIABLES
    body,         \* the bytes of the response, in the order sent
    ending,       \* how the byte stream finishes after them: "end" or "error"
    pos,          \* how many of the bytes the reader has taken
    buffer,       \* FramedRead: bytes read and not yet framed
    eof,          \* FramedRead: the last read returned no bytes
    is_readable,  \* FramedRead: the buffer may hold a frame
    has_errored,  \* FramedRead: the last item was an error
    items,        \* the items the consumer has received
    done,         \* the stream has returned None
    paths         \* IpfsPath::from_str of each Path string the daemon sends

streamVars ==
    <<body, ending, pos, buffer, eof, is_readable, has_errored, items, done, paths>>

(***************************************************************************)
(* State of one call to the daemon's HTTP API: the request the client      *)
(* built, the daemon's answer, and what the call returned.                 *)
(***************************************************************************)
VARIABLES
    pc,        \* "idle", "sent", "responded" or "returned"
    call,      \* the function called and its arguments
    request,   \* the request built from them
    response,  \* the response, or the failure to get one
    result,    \* the value returned to the caller
    blocks     \* the blocks the daemon stores

rpcVars == <<pc, call, request, response, result, blocks>>

vars == <<idVars, streamVars, rpcVars>>

None == [kind |-> "none"]

Hold(kind, v) == [kind |-> kind, v |-> v]

IdleId ==
    /\ text = <<>>
    /\ held = None
    /\ op = "init"
    /\ res = None
    /\ origin = None

IdleStream ==
    /\ body = <<>>
    /\ ending = "end"
    /\ pos = 0
    /\ buffer = <<>>
    /\ eof = FALSE
    /\ is_readable = FALSE
    /\ has_errored = FALSE
    /\ items = <<>>
    /\ done = FALSE
    /\ paths = None

IdleRpc ==
    /\ pc = "idle"
    /\ call = None
    /\ request = None
    /\ response = None
    /\ result = None
    /\ blocks = {}

InitId ==
    /\ text \in InputTexts
    /\ held = None
    /\ op = "init"
    /\ res = None
    /\ origin = None
    /\ IdleStream
    /\ IdleRpc

\* Keep the value of a successful operation, drop the value in hand otherwise.
Apply(name, kind, r) ==
    /\ op' = name
    /\ res' = r
    /\ held' = IF r.ok THEN Hold(kind, r.val) ELSE None
    /\ UNCHANGED <<text, origin, streamVars, rpcVars>>

\* Cid::from_str(text)
ParseCid == Apply("Cid::from_str", "Cid", CidFromStr(text))

\* IpfsCid::from_str(text)
ParseIpfsCid == Apply("IpfsCid::from_str", "IpfsCid", IpfsCidFromStr(text))

\* IpnsKey::from_str(text)
ParseIpnsKey == Apply("IpnsKey::from_str", "IpnsKey", IpnsKeyFromStr(text))

\* IpfsPath::from_str(text)
ParseIpfsPath == Apply("IpfsPath::from_str", "IpfsPath", IpfsPathFromStr(text))

\* IpfsCid::try_from(cid)
ConvertIpfsCid ==
    /\ held.kind = "Cid"
    /\ Apply("IpfsCid::try_from", "IpfsCid", IpfsCidTryFrom(held.v))

\* IpnsKey::try_from(cid)
ConvertIpnsKey ==
    /\ held.kind = "Cid"
    /\ Apply("IpnsKey::try_from", "IpnsKey", IpnsKeyTryFrom(held.v))

\* IpfsCid(cid): the tuple constructor, through the pub field
ConstructIpfsCid ==
    /\ held.kind = "Cid"
    /\ Apply("IpfsCid", "IpfsCid", Ok(IpfsCid(held.v)))

\* IpnsKey(cid): the tuple constructor, through the pub field
ConstructIpnsKey ==
    /\ held.kind = "Cid"
    /\ Apply("IpnsKey", "IpnsKey", Ok(IpnsKey(held.v)))

\* Cid::from(key), for either wrapper
Unwrap ==
    /\ held.kind \in {"IpfsCid", "IpnsKey"}
    /\ Apply("Cid::from", "Cid", Ok(held.v.cid))

\* IpfsPath::Ipfs(cid) and IpfsPath::Ipns(key)
WrapPath ==
    /\ held.kind \in {"IpfsCid", "IpnsKey"}
    /\ Apply("IpfsPath", "IpfsPath",
             Ok(IF held.kind = "IpfsCid" THEN PathIpfs(held.v) ELSE PathIpns(held.v)))

\* path.as_str(): the text in hand becomes the formatted path
FormatPath ==
    /\ held.kind = "IpfsPath"
    /\ LET r == IpfsPathAsStr(held.v)
       IN /\ op' = "as_str"
          /\ res' = r
          /\ text' = IF r.ok THEN r.val ELSE text
          /\ origin' = IF r.ok THEN Hold("IpfsPath", held.v) ELSE None
          /\ held' = IF r.ok THEN held ELSE None
          /\ UNCHANGED <<streamVars, rpcVars>>

NextId ==
    \/ ParseCid
    \/ ParseIpfsCid
    \/ ParseIpnsKey
    \/ ParseIpfsPath
    \/ ConvertIpfsCid
    \/ ConvertIpnsKey
    \/ ConstructIpfsCid
    \/ ConstructIpnsKey
    \/ Unwrap
    \/ WrapPath
    \/ FormatPath

SpecId == InitId /\ [][NextId]_vars

(***************************************************************************)
(* Properties of the identifier and path types (under SpecId).             *)
(***************************************************************************)
ValidIpfsCid(w) == w.type = "IpfsCid" /\ w.cid.codec \in {112, 85}

ValidIpnsKey(w) == w.type = "IpnsKey" /\ w.cid.codec = 114

ValidPath(p) ==
    IF p.variant = "Ipfs" THEN ValidIpfsCid(p.id) ELSE ValidIpnsKey(p.id)

\* C3: every IpfsCid value a caller can obtain has codec 0x70 or 0x55 and
\* every IpnsKey value has codec 0x72, whichever public operation made it
\* (a parse, a conversion, or the tuple constructor), also inside a path.
C3_CodecInvariant ==
    /\ held.kind = "IpfsCid" => ValidIpfsCid(held.v)
    /\ held.kind = "IpnsKey" => ValidIpnsKey(held.v)
    /\ held.kind = "IpfsPath" => ValidPath(held.v)

\* C4: a valid path formats as its prefix followed by the identifier's
\* canonical text, and parsing that text gives the same path back, with
\* the same variant.
C4_PathRoundTrip ==
    /\ (op = "as_str" /\ held.kind = "IpfsPath" /\ ValidPath(held.v)) =>
           /\ res.ok
           /\ held.v.variant = "Ipfs" => text = IpfsPrefix \o IpfsCidFmt(held.v.id).val
           /\ held.v.variant = "Ipns" => text = IpnsPrefix \o IpnsKeyFmt(held.v.id).val
    /\ (op = "IpfsPath::from_str" /\ origin.kind = "IpfsPath" /\ ValidPath(origin.v)) =>
           /\ res = Ok(origin.v)
           /\ res.val.variant = origin.v.variant
    /\ (op \in {"IpfsPath", "IpfsPath::from_str"} /\ held.kind = "IpfsPath" /\ ValidPath(held.v)) =>
           /\ IpfsPathAsStr(held.v).ok
           /\ IpfsPathFromStr(IpfsPathAsStr(held.v).val) = Ok(held.v)

\* C4 witness: an /ipns/ path was formatted and the text parsed back.
C4_Witness ==
    /\ op = "IpfsPath::from_str"
    /\ origin.kind = "IpfsPath"
    /\ origin.v.variant = "Ipns"
    /\ ValidPath(origin.v)
    /\ text = IpnsPrefix \o TestKeyText
    /\ res.ok

\* C5: no text is accepted by both identifier parsers: a text whose
\* identifier has codec 0x72 is rejected by IpfsCid::from_str, one whose
\* identifier has codec 0x70 or 0x55 is rejected by IpnsKey::from_str.
C5_DomainsDisjoint ==
    LET cid == CidFromStr(text)
    IN /\ (op = "IpfsCid::from_str" /\ res.ok) => ~IpnsKeyFromStr(text).ok
       /\ (op = "IpnsKey::from_str" /\ res.ok) => ~IpfsCidFromStr(text).ok
       /\ (op = "IpfsCid::from_str" /\ cid.ok /\ cid.val.codec = 114) => ~res.ok
       /\ (op = "IpnsKey::from_str" /\ cid.ok /\ cid.val.codec \in {112, 85}) => ~res.ok

\* C5 witness: the key text of the tests was refused as a content identifier.
C5_Witness ==
    /\ op = "IpfsCid::from_str"
    /\ text = TestKeyText
    /\ IpnsKeyFromStr(text).ok
    /\ ~res.ok

\* C6: IpfsPath::from_str returns an error for every text that starts with
\* neither "/ipfs/" nor "/ipns/", and for either prefix with nothing after it.
C6_BadPrefixRejected ==
    (/\ op = "IpfsPath::from_str"
     /\ \/ ~StartsWith(text, IpfsPrefix) /\ ~StartsWith(text, IpnsPrefix)
        \/ text \in {IpfsPrefix, IpnsPrefix}) =>
        /\ res.ok = FALSE
        /\ res.err \in {"IPFS path must start with /ipfs/ or /ipns/",
                        "Invalid CID in /ipfs/ path", "Invalid IPNS key in /ipns/ path"}
        /\ held = None

\* C6 witness: a valid identifier behind a prefix in the wrong case was refused.
C6_Witness ==
    /\ op = "IpfsPath::from_str"
    /\ text = <<"/", "I", "P", "F", "S", "/">> \o TestCidText
    /\ ~res.ok

(***************************************************************************)
(* name_resolve_streaming (ipns.rs): the response body, read through       *)
(* StreamReader and FramedRead with LinesCodec, each line mapped to an     *)
(* item by the closure of parsed_stream.                                   *)
(*                                                                         *)
(* A response is a sequence of bytes.  Byte 10 is the newline and 13 the   *)
(* carriage return; 255 is a byte that occurs in no UTF-8 text; 1 and 2    *)
(* stand for the text of JSON documents: the line <<1>> for                *)
(* {"Path":"/ipfs/<SmallCidText>"}, <<1, 2>> for                           *)
(* {"Path":"/ipns/<SmallKeyText>"}, <<2>> for                              *)
(* {"Path":"/ipfs/<SmallKeyText>"} (a record whose path is invalid),       *)
(* <<2, 2>> for a JSON object without a Path field; every other line is    *)
(* not JSON.                                                               *)
(***************************************************************************)
LF == 10

CR == 13

NotUtf8 == 255

MaxLines == 3

MaxChunk == 2

LineTexts == {<<1>>, <<1, 2>>, <<2>>, <<2, 2>>, <<>>, <<NotUtf8>>, <<1, CR>>}

Residues == {<<>>, <<1>>, <<2>>, <<CR>>, <<NotUtf8>>}

RECURSIVE Bodies(_)
Bodies(n) ==
    IF n = 0 THEN {<<>>}
    ELSE Bodies(n - 1) \cup {l \o <<LF>> \o b : l \in LineTexts, b \in Bodies(n - 1)}

Responses == {b \o r : b \in Bodies(MaxLines), r \in Residues}

\* Deserialize for IpfsPath: IpfsPath::from_str of the Path string, for the
\* three Path strings that occur in the responses.  A path's validity does
\* not change, so it is established once, when the response starts, and
\* kept in the variable paths.
DeserializePaths ==
    [cid |-> IpfsPathFromStr(IpfsPrefix \o SmallCidText),
     key |-> IpfsPathFromStr(IpnsPrefix \o SmallKeyText),
     keyAsCid |-> IpfsPathFromStr(IpfsPrefix \o SmallKeyText)]

\* JSON ignores white space around a document.
RECURSIVE TrimWs(_)
TrimWs(line) ==
    IF line # <<>> /\ Head(line) = CR THEN TrimWs(Tail(line))
    ELSE IF line # <<>> /\ line[Len(line)] = CR THEN TrimWs(Take(line, Len(line) - 1))
    ELSE line

PathItem(parsed) ==
    IF parsed.ok THEN Ok(parsed.val) ELSE Err("serde_json: invalid Path")

\* serde_json::from_str::<ResolveResponse>(&line), then item.Path
ResolveLine(line) ==
    LET doc == TrimWs(line)
    IN CASE doc = <<1>> -> PathItem(paths.cid)
         [] doc = <<1, 2>> -> PathItem(paths.key)
         [] doc = <<2>> -> PathItem(paths.keyAsCid)
         [] doc = <<2, 2>> -> Err("serde_json: missing field Path")
         [] OTHER -> Err("serde_json: syntax")

ParseLineResultBug(line_result) ==
    IF ~line_result.ok THEN ResolveLine(<<>>) ELSE ResolveLine(line_result.val)

\* The closure of parsed_stream: line_result?, then the decoded path.
ParseLineResult(line_result) ==
    IF ~line_result.ok THEN Err(line_result.err) ELSE ResolveLine(line_result.val)

IsUtf8(line) == \A i \in 1..Len(line) : line[i] # NotUtf8

\* without_carriage_return
Chomp(line) ==
    IF line # <<>> /\ line[Len(line)] = CR THEN Take(line, Len(line) - 1) ELSE line

Utf8(line) == IF IsUtf8(line) THEN Ok(line) ELSE Err("io: InvalidData")

LinesCodecDecodeBug(buf) ==
    LET at == Find(buf, <<LF>>)
    IN IF at = 0
       THEN [frame |-> None, rest |-> buf]
       ELSE [frame |-> Utf8(Chomp(Take(buf, Len(buf) - 1))), rest |-> <<>>]

\* LinesCodec::decode: the first line of the buffer, if it holds a newline.
\* [frame, rest]: frame is None, or the line or the error to hand on.
LinesCodecDecode(buf) ==
    LET at == Find(buf, <<LF>>)
    IN IF at = 0
       THEN [frame |-> None, rest |-> buf]
       ELSE [frame |-> Utf8(Chomp(Take(buf, at - 1))), rest |-> Drop(buf, at)]

\* LinesCodec::decode_eof: what is left without a newline is a last line,
\* unless it is empty or a lone carriage return.
LinesCodecDecodeEof(buf) ==
    LET first == LinesCodecDecode(buf)
    IN IF first.frame # None THEN first
       ELSE IF buf = <<>> \/ buf = <<CR>> THEN [frame |-> None, rest |-> buf]
       ELSE [frame |-> Utf8(Chomp(buf)), rest |-> <<>>]

InitStream ==
    /\ paths = DeserializePaths
    /\ body \in Responses
    /\ ending \in {"end", "error"}
    /\ pos = 0
    /\ buffer = <<>>
    /\ eof = FALSE
    /\ is_readable = FALSE
    /\ has_errored = FALSE
    /\ items = <<>>
    /\ done = FALSE
    /\ IdleId
    /\ IdleRpc

\* poll_next after an error: the stream ends.
PollErrored ==
    /\ ~done
    /\ has_errored
    /\ is_readable' = FALSE
    /\ has_errored' = FALSE
    /\ done' = TRUE
    /\ UNCHANGED <<body, ending, pos, buffer, eof, items, paths, idVars, rpcVars>>

PollFrameBug ==
    /\ ~done
    /\ ~has_errored
    /\ is_readable
    /\ LET d == IF eof THEN LinesCodecDecodeEof(buffer) ELSE LinesCodecDecode(buffer)
       IN /\ buffer' = d.rest
          /\ IF d.frame = None
             THEN /\ is_readable' = FALSE
                  /\ done' = eof
                  /\ UNCHANGED <<items, has_errored>>
             ELSE /\ items' = Append(items, ParseLineResult(d.frame))
                  /\ has_errored' = ~ParseLineResult(d.frame).ok
                  /\ UNCHANGED <<is_readable, done>>
    /\ UNCHANGED <<body, ending, pos, eof, paths, idVars, rpcVars>>

\* One turn of poll_next with a readable buffer: decode, or decode_eof once
\* the byte stream has ended; a frame or an error goes through the closure
\* to the consumer.
PollFrame ==
    /\ ~done
    /\ ~has_errored
    /\ is_readable
    /\ LET d == IF eof THEN LinesCodecDecodeEof(buffer) ELSE LinesCodecDecode(buffer)
       IN /\ buffer' = d.rest
          /\ IF d.frame = None
             THEN /\ is_readable' = FALSE
                  /\ done' = eof
                  /\ UNCHANGED <<items, has_errored>>
             ELSE /\ items' = Append(items, ParseLineResult(d.frame))
                  /\ has_errored' = ~d.frame.ok
                  /\ UNCHANGED <<is_readable, done>>
    /\ UNCHANGED <<body, ending, pos, eof, paths, idVars, rpcVars>>

\* One turn of poll_next with nothing to frame: the next chunk of the body.
PollReadChunk ==
    /\ ~done
    /\ ~has_errored
    /\ ~is_readable
    /\ \E n \in 1..MaxChunk :
          /\ pos + n <= Len(body)
          /\ buffer' = buffer \o SubSeq(body, pos + 1, pos + n)
          /\ pos' = pos + n
    /\ eof' = FALSE
    /\ is_readable' = TRUE
    /\ UNCHANGED <<body, ending, has_errored, items, done, paths, idVars, rpcVars>>

\* The byte stream ends: the read returns no bytes.
PollReadEnd ==
    /\ ~done
    /\ ~has_errored
    /\ ~is_readable
    /\ pos = Len(body)
    /\ ending = "end"
    /\ IF eof
       THEN done' = TRUE /\ UNCHANGED <<eof, is_readable>>
       ELSE eof' = TRUE /\ is_readable' = TRUE /\ UNCHANGED done
    /\ UNCHANGED <<body, ending, pos, buffer, has_errored, items, paths, idVars, rpcVars>>

\* The byte stream fails: the read error is the item.
PollReadError ==
    /\ ~done
    /\ ~has_errored
    /\ ~is_readable
    /\ pos = Len(body)
    /\ ending = "error"
    /\ items' = Append(items, ParseLineResult(Err("io: transport")))
    /\ has_errored' = TRUE
    /\ UNCHANGED <<body, ending, pos, buffer, eof, is_readable, done, paths, idVars, rpcVars>>

NextStream ==
    \/ PollErrored
    \/ PollFrame
    \/ PollReadChunk
    \/ PollReadEnd
    \/ PollReadError

SpecStream == InitStream /\ [][NextStream]_vars

(***************************************************************************)
(* Properties of the resolve stream (under SpecStream).  The lines of a    *)
(* response are read off its bytes, independently of the reader's state.   *)
(***************************************************************************)
\* The newline-terminated lines of a response, without their newlines.
RECURSIVE TermLines(_)
TermLines(b) ==
    LET at == Find(b, <<LF>>)
    IN IF at = 0 THEN <<>> ELSE <<Take(b, at - 1)>> \o TermLines(Drop(b, at))

\* What follows the last newline.
RECURSIVE Residue(_)
Residue(b) ==
    LET at == Find(b, <<LF>>)
    IN IF at = 0 THEN b ELSE Residue(Drop(b, at))

\* The item a line decodes to.
ExpectedItem(line) ==
    IF IsUtf8(line) THEN ResolveLine(Chomp(line)) ELSE Err("io: InvalidData")

\* Every line before the j-th is UTF-8 text.
TextBefore(lines, j) == \A i \in 1..(j - 1) : i <= Len(lines) => IsUtf8(lines[i])

\* The lines up to and including the first that is not UTF-8 text.
UpToNotUtf8(lines) ==
    LET bad == {i \in 1..Len(lines) : ~IsUtf8(lines[i])}
    IN IF bad = {} THEN lines ELSE Take(lines, CHOOSE i \in bad : \A j \in bad : i <= j)

\* C1 as claimed: whatever makes a line undecodable, and wherever the line
\* is, the line yields its one error item and the lines after it are still
\* emitted, each as its own item.
C1_EveryBadLineIsolated ==
    LET lines == TermLines(body)
    IN \A i \in 1..Len(lines) :
          (done /\ ~ExpectedItem(lines[i]).ok) =>
              \A j \in i..Len(lines) : Len(items) >= j /\ items[j] = ExpectedItem(lines[j])

\* C1 as amended: a line of UTF-8 text that is not a resolve record (not
\* JSON, another shape, an invalid Path) yields one serde error item at its
\* place and does not end the sequence: the later lines are emitted, up to
\* and including the first line that is not UTF-8 text.
C1_BadTextLineIsolated ==
    LET lines == TermLines(body)
    IN \A i \in 1..Len(lines) :
          (IsUtf8(lines[i]) /\ ~ExpectedItem(lines[i]).ok /\ TextBefore(lines, i)) =>
              /\ Len(items) >= i =>
                    /\ items[i] = ExpectedItem(lines[i])
                    /\ items[i].err \in {"serde_json: syntax", "serde_json: missing field Path",
                                         "serde_json: invalid Path"}
              /\ Len(items) = i => ~has_errored
              /\ done =>
                    \A j \in i..Len(lines) :
                        TextBefore(lines, j) => Len(items) >= j /\ items[j] = ExpectedItem(lines[j])

\* C1 witness: three lines, the second not a record; path, error, path.
C1_Witness ==
    /\ body = <<1, LF, 2, 2, LF, 1, 2, LF>>
    /\ done
    /\ Len(items) = 3
    /\ items[1].ok /\ ~items[2].ok /\ items[3].ok

\* C2 as claimed: a response that stops after the bytes of an unfinished
\* line (more than a carriage return, after lines of UTF-8 text) ends with
\* a transport error item, and the unfinished line is not emitted in any
\* form.
C2_TruncationIsTransportError ==
    LET lines == TermLines(body)
    IN (done /\ Residue(body) \notin {<<>>, <<CR>>} /\ TextBefore(lines, Len(lines) + 1)) =>
          /\ Len(items) = Len(lines) + 1
          /\ items[Len(items)] = Err("io: transport")

\* C2 as amended: when the byte stream fails in an unfinished line, the
\* items are those of the finished lines and then the transport error, and
\* nothing of the unfinished line; when the byte stream just ends there,
\* the unfinished line is decoded and emitted as the last item, like a
\* finished one (a lone carriage return is dropped).
C2_TruncatedStreamOutcome ==
    LET lines == TermLines(body)
        finished == [i \in 1..Len(lines) |-> ExpectedItem(lines[i])]
    IN (done /\ Residue(body) # <<>> /\ TextBefore(lines, Len(lines) + 1)) =>
          /\ ending = "error" => items = Append(finished, Err("io: transport"))
          /\ (ending = "end" /\ Residue(body) = <<CR>>) => items = finished
          /\ (ending = "end" /\ Residue(body) # <<CR>>) =>
                 items = Append(finished, ExpectedItem(Residue(body)))

\* C2 witness: the byte stream failed after a finished line and one more byte.
C2_Witness ==
    /\ body = <<1, 2, LF, 1>>
    /\ ending = "error"
    /\ done
    /\ Len(items) = 2
    /\ items[2] = Err("io: transport")

\* C8 as claimed: the items are the decode results of the lines, one for
\* each line and in the order of the lines, whatever the chunks were.
C8_OneItemPerLineInOrder ==
    LET lines == TermLines(body)
    IN /\ \A i \in 1..Len(items) : i <= Len(lines) => items[i] = ExpectedItem(lines[i])
       /\ (done /\ ending = "end" /\ Residue(body) = <<>>) =>
              items = [i \in 1..Len(lines) |-> ExpectedItem(lines[i])]

\* C8 as amended: the items are the decode results of the lines, in the
\* order of the lines and one for each, up to and including the first line
\* that is not UTF-8 text, which ends the sequence; no line gives an empty
\* sequence.
C8_ItemsFollowLinesToNotUtf8 ==
    LET lines == TermLines(body)
        emitted == UpToNotUtf8(lines)
    IN /\ \A i \in 1..Len(items) : i <= Len(lines) => items[i] = ExpectedItem(lines[i])
       /\ (done /\ ending = "end" /\ Residue(body) = <<>>) =>
              items = [i \in 1..Len(emitted) |-> ExpectedItem(emitted[i])]
       /\ (done /\ ending = "end" /\ body = <<>>) => items = <<>>

\* C8 witness: three lines of different lengths, all read, three items.
C8_Witness ==
    /\ body = <<1, 2, LF, 2, LF, 1, LF>>
    /\ ending = "end"
    /\ done
    /\ Len(items) = 3
    /\ items[1] = PathItem(paths.key) /\ items[3] = PathItem(paths.cid)

(***************************************************************************)
(* The single-shot calls to the daemon's HTTP API: get_block (ipfs.rs),    *)
(* generate_ipns_key (keys.rs) and the request of name_resolve_streaming   *)
(* (ipns.rs).  A call builds a request, the daemon answers or fails to,    *)
(* and the call returns.                                                   *)
(***************************************************************************)
StatusOK == 200

\* The statuses the daemon answers with: OK, another success, two failures.
Statuses == {StatusOK, 201, 400, 500}

Post(path, query) == [method |-> "POST", path |-> path, query |-> query]

\* send() failed: no connection, or no answer within the read timeout
Failure == [kind |-> "failure"]

Http(status, content) == [kind |-> "http", status |-> status, body |-> content]

\* Response bodies: raw bytes, a JSON object, text that is not JSON, and a
\* body whose transfer breaks off.
Bytes(data) == [type |-> "bytes", data |-> data]

Json(doc) == [type |-> "json", doc |-> doc]

NotJson == [type |-> "text"]

Aborted == [type |-> "aborted"]

ErrorBody(message) == Json([Message |-> message, Code |-> 0, Type |-> "error"])

RpcErr(what, detail) == Err([what |-> what, detail |-> detail])

\* to_string() on a value whose Display implementation fails
Panic == RpcErr("panic", "a Display implementation returned an error unexpectedly")

Some(v) == [some |-> TRUE, v |-> v]

Absent == [some |-> FALSE]

\* The value of the query parameter `key`, if the query has it.
Param(query, key) ==
    LET at == {i \in 1..Len(query) : query[i][1] = key}
    IN IF at = {} THEN Absent ELSE Some(query[CHOOSE i \in at : \A j \in at : i <= j][2])

\* How many times the query has the parameter `key`.
ParamCount(query, key) == Cardinality({i \in 1..Len(query) : query[i][1] = key})

(***************************************************************************)
(* get_block.  The daemon stores blocks under the multihash of their       *)
(* content; here that is the identity multihash, which the model can       *)
(* compute, wrapped as a version 1 raw identifier.                         *)
(***************************************************************************)
MaxBlockLen == 2

BlockData == UNION {[1..n -> {1, 2}] : n \in 0..MaxBlockLen}

DaemonCid(data) == CidV1(Raw, [code |-> 0, digest |-> data])

\* The identifiers get_block is called with: of every block there may be,
\* and of one block no daemon has.
RequestedCids ==
    {IpfsCid(DaemonCid(d)) : d \in BlockData} \cup {IpfsCid(CidV1(DagPb, SmallHash))}

\* The stored blocks the text of an identifier names.
StoredBlocks(store, arg) ==
    LET cid == CidFromStr(arg)
    IN IF ~cid.ok THEN {} ELSE {d \in store : DaemonCid(d).hash = cid.val.hash}

\* /api/v0/block/get: the block's bytes, or the daemon's error.
BlockGetResponses(store, req) ==
    LET found == StoredBlocks(store, Param(req.query, "arg").v)
    IN {Failure}
         \cup (IF found # {}
               THEN {Http(StatusOK, Bytes(d)) : d \in found} \cup {Http(StatusOK, Aborted)}
               ELSE {Http(500, ErrorBody("block was not found locally"))})

\* get_block, from the response on
GetBlockResult(resp) ==
    IF resp.kind = "failure" THEN RpcErr("reqwest", "send")
    ELSE IF resp.body.type = "aborted" THEN RpcErr("reqwest", "body")
    ELSE Ok(resp.body)

(***************************************************************************)
(* put_block.  The daemon stores the bytes of the form's part and answers  *)
(* with the text of the identifier it stored them under; the base of that  *)
(* text is the daemon's choice.                                            *)
(***************************************************************************)
PostForm(path, form) == [method |-> "POST", path |-> path, query |-> <<>>, form |-> form]

KeyBases == {"b", "z", "f"}

\* Key strings that are no text of a content identifier: no identifier at
\* all, nothing, and the text of a name.
BadKeys == {<<"n", "o", "t", "-", "a", "-", "c", "i", "d">>, <<>>, SmallKeyText}

\* /api/v0/block/put, the block stored: {Key, Size}.
BlockPutStored(data) ==
    {Http(StatusOK, Json([Key |-> MultibaseEncode(b, CidToBytes(DaemonCid(data))),
                          Size |-> Len(data)])) : b \in KeyBases}
      \cup {Http(StatusOK, Json([Key |-> k, Size |-> Len(data)])) : k \in BadKeys}

\* /api/v0/block/put, the block not stored: no answer, or the daemon's error.
BlockPutRefused ==
    {Failure, Http(500, ErrorBody("multipart: NextPart: EOF")), Http(500, NotJson),
     Http(StatusOK, Aborted)}

\* response.json::<PutBlockResponse>(): Key is required, other fields are
\* ignored.
PutBlockResponseFromJson(content) ==
    IF content.type # "json" THEN Err("not JSON")
    ELSE IF "Key" \notin DOMAIN content.doc THEN Err("missing field")
    ELSE Ok(content.doc)

PutBlockResultBug(resp) ==
    IF resp.kind = "failure" THEN RpcErr("reqwest", "send")
    ELSE LET resp_json == PutBlockResponseFromJson(resp.body)
         IN IF ~resp_json.ok THEN RpcErr("reqwest", "decode")
            ELSE LET cid == CidFromStr(resp_json.val.Key)
                 IN IF ~cid.ok THEN RpcErr("Invalid CID", "") ELSE Ok(IpfsCid(cid.val))

\* put_block, from the response on
PutBlockResult(resp) ==
    IF resp.kind = "failure" THEN RpcErr("reqwest", "send")
    ELSE LET resp_json == PutBlockResponseFromJson(resp.body)
         IN IF ~resp_json.ok THEN RpcErr("reqwest", "decode")
            ELSE LET cid == IpfsCidFromStr(resp_json.val.Key)
                 IN IF ~cid.ok THEN RpcErr(cid.err, "") ELSE Ok(cid.val)

(***************************************************************************)
(* generate_ipns_key.                                                      *)
(***************************************************************************)
KeyNames == {<<"k", "1">>, <<>>}

\* The Id strings a /key/gen response may carry: two names, a content
\* identifier, and text that is no identifier.
KeyIds == {SmallKeyText, TestKeyText, SmallCidText, <<"n", "o", "t", "-", "a", "-", "c", "i", "d">>}

Messages == {"key with name 'k1' already exists", ""}

KeyGenBodies(name) ==
    {Json([Name |-> name, Id |-> id]) : id \in KeyIds}
      \cup {ErrorBody(m) : m \in Messages}
      \cup {Json([Message |-> m]) : m \in Messages}
      \cup {NotJson, Aborted}

\* response.json::<KeyGenResponse>(): Name and Id are required, other
\* fields are ignored, and Id is parsed as an IpnsKey.
KeyGenResponseFromJson(content) ==
    IF content.type # "json" THEN Err("not JSON")
    ELSE IF ~({"Name", "Id"} \subseteq DOMAIN content.doc) THEN Err("missing field")
    ELSE LET id == IpnsKeyFromStr(content.doc.Id)
         IN IF ~id.ok THEN Err(id.err)
            ELSE Ok([Name |-> content.doc.Name, Id |-> id.val])

\* response.json::<IpfsErrorResponse>(): Message, Code and Type are required.
IpfsErrorResponseFromJson(content) ==
    IF content.type # "json" THEN Err("not JSON")
    ELSE IF ~({"Message", "Code", "Type"} \subseteq DOMAIN content.doc) THEN Err("missing field")
    ELSE Ok(content.doc)

GenerateIpnsKeyResultBug(resp) ==
    IF resp.kind = "failure" THEN RpcErr("Failed to send request to /key/gen", "")
    ELSE LET key_info == KeyGenResponseFromJson(resp.body)
             err_body == IpfsErrorResponseFromJson(resp.body)
         IN IF key_info.ok THEN Ok(key_info.val.Id)
            ELSE RpcErr("IPFS key generation failed",
                        IF err_body.ok THEN err_body.val.Message ELSE "Unknown error")

\* generate_ipns_key, from the response on
GenerateIpnsKeyResult(resp) ==
    IF resp.kind = "failure" THEN RpcErr("Failed to send request to /key/gen", "")
    ELSE IF resp.status = StatusOK
    THEN LET key_info == KeyGenResponseFromJson(resp.body)
         IN IF ~key_info.ok
            THEN RpcErr("Failed to deserialize key generation response", "")
            ELSE Ok(key_info.val.Id)
    ELSE LET err_body == IpfsErrorResponseFromJson(resp.body)
         IN RpcErr("IPFS key generation failed",
                   IF err_body.ok THEN err_body.val.Message ELSE "Unknown error")

(***************************************************************************)
(* The request of name_resolve_streaming.                                  *)
(***************************************************************************)
TrueText == <<"t", "r", "u", "e">>

FalseText == <<"f", "a", "l", "s", "e">>

BoolText(b) == IF b THEN TrueText ELSE FalseText

DecimalDigits == <<"0", "1", "2", "3", "4", "5", "6", "7", "8", "9">>

RECURSIVE DecimalText(_)
\* u32::to_string
DecimalText(n) ==
    IF n < 10 THEN <<DecimalDigits[n + 1]>>
    ELSE Append(DecimalText(n \div 10), DecimalDigits[(n % 10) + 1])

MaxCount == 11

\* The names resolved: a key, and a wrapper built around the version 0
\* identifier of the tests of ipfs.rs, which has no base36 text.
ResolveNames == {IpnsKey(CidV1(LIBP2P_KEY_CODE, SmallHash)), IpnsKey(CidFromStr(TestCidText).val)}

OptBool == {Absent, Some(TRUE), Some(FALSE)}

OptCount == {Absent} \cup {Some(n) : n \in {0, MaxCount - 1, MaxCount}}

OptTimeout == {Absent, Some(<<"3", "0", "s">>), Some(<<>>)}

ResolveParamsBug(arg, stream, recursive, nocache, dht_record_count, dht_timeout) ==
    <<<<"arg", arg>>>>
      \o (IF stream THEN <<<<"stream", TrueText>>>> ELSE <<>>)
      \o (IF recursive.some THEN <<<<"recursive", BoolText(recursive.v)>>>> ELSE <<>>)
      \o (IF nocache.some THEN <<<<"recursive", BoolText(nocache.v)>>>> ELSE <<>>)
      \o (IF dht_record_count.some
          THEN <<<<"dht-record-count", DecimalText(dht_record_count.v)>>>> ELSE <<>>)
      \o (IF dht_timeout.some THEN <<<<"dht-timeout", dht_timeout.v>>>> ELSE <<>>)

\* name_resolve_streaming: the query parameters, in the order pushed
ResolveParams(arg, stream, recursive, nocache, dht_record_count, dht_timeout) ==
    <<<<"arg", arg>>>>
      \o (IF stream THEN <<<<"stream", TrueText>>>> ELSE <<>>)
      \o (IF recursive.some THEN <<<<"recursive", BoolText(recursive.v)>>>> ELSE <<>>)
      \o (IF nocache.some THEN <<<<"nocache", BoolText(nocache.v)>>>> ELSE <<>>)
      \o (IF dht_record_count.some
          THEN <<<<"dht-record-count", DecimalText(dht_record_count.v)>>>> ELSE <<>>)
      \o (IF dht_timeout.some THEN <<<<"dht-timeout", dht_timeout.v>>>> ELSE <<>>)

\* name_resolve_streaming, from the response on: the lines of any response
\* are handed to the caller as a stream.
NameResolveResult(resp) ==
    IF resp.kind = "failure" THEN RpcErr("reqwest", "send") ELSE Ok("stream")

(***************************************************************************)
(* The calls as steps.                                                     *)
(***************************************************************************)
InitRpc ==
    /\ pc = "idle"
    /\ call = None
    /\ request = None
    /\ response = None
    /\ result = None
    /\ blocks \in {{}, BlockData} \cup {{d} : d \in BlockData}
    /\ IdleId
    /\ IdleStream

\* Build the request whose arg is a formatted identifier, or panic.
Send(path, arg, query) ==
    IF arg.ok
    THEN /\ request' = Post(path, query)
         /\ pc' = "sent"
         /\ UNCHANGED result
    ELSE /\ request' = None
         /\ pc' = "returned"
         /\ result' = Panic

\* get_block, up to send()
CallGetBlock ==
    /\ pc = "idle"
    /\ \E cid \in RequestedCids :
          LET arg == IpfsCidFmt(cid)
          IN /\ call' = [fn |-> "get_block", cid |-> cid]
             /\ Send("/api/v0/block/get", arg, <<<<"arg", arg.val>>>>)
    /\ UNCHANGED <<response, blocks, idVars, streamVars>>

\* the daemon answers /api/v0/block/get
DaemonBlockGet ==
    /\ pc = "sent"
    /\ call.fn = "get_block"
    /\ response' \in BlockGetResponses(blocks, request)
    /\ pc' = "responded"
    /\ UNCHANGED <<call, request, result, blocks, idVars, streamVars>>

\* get_block, after send()
ReturnGetBlock ==
    /\ pc = "responded"
    /\ call.fn = "get_block"
    /\ result' = GetBlockResult(response)
    /\ pc' = "returned"
    /\ UNCHANGED <<call, request, response, blocks, idVars, streamVars>>

\* generate_ipns_key, up to send()
CallGenerateIpnsKey ==
    /\ pc = "idle"
    /\ \E name \in KeyNames :
          /\ call' = [fn |-> "generate_ipns_key", name |-> name]
          /\ request' = Post("/api/v0/key/gen", <<<<"arg", name>>>>)
    /\ pc' = "sent"
    /\ UNCHANGED <<response, result, blocks, idVars, streamVars>>

\* the daemon answers /api/v0/key/gen
DaemonKeyGen ==
    /\ pc = "sent"
    /\ call.fn = "generate_ipns_key"
    /\ response' \in {Failure} \cup {Http(s, b) : s \in Statuses, b \in KeyGenBodies(call.name)}
    /\ pc' = "responded"
    /\ UNCHANGED <<call, request, result, blocks, idVars, streamVars>>

\* generate_ipns_key, after send()
ReturnGenerateIpnsKey ==
    /\ pc = "responded"
    /\ call.fn = "generate_ipns_key"
    /\ result' = GenerateIpnsKeyResult(response)
    /\ pc' = "returned"
    /\ UNCHANGED <<call, request, response, blocks, idVars, streamVars>>

\* name_resolve_streaming, up to send()
CallNameResolveStreaming ==
    /\ pc = "idle"
    /\ \E name \in ResolveNames, stream \in BOOLEAN, recursive \in OptBool, nocache \in OptBool,
          dht_record_count \in OptCount, dht_timeout \in OptTimeout :
          LET arg == IpnsKeyFmt(name)
          IN /\ call' = [fn |-> "name_resolve_streaming", name |-> name, stream |-> stream,
                         recursive |-> recursive, nocache |-> nocache,
                         dht_record_count |-> dht_record_count, dht_timeout |-> dht_timeout]
             /\ Send("/api/v0/name/resolve", arg,
                     ResolveParams(arg.val, stream, recursive, nocache, dht_record_count,
                                   dht_timeout))
    /\ UNCHANGED <<response, blocks, idVars, streamVars>>

\* the daemon answers /api/v0/name/resolve
DaemonNameResolve ==
    /\ pc = "sent"
    /\ call.fn = "name_resolve_streaming"
    /\ response' \in {Failure} \cup {Http(s, Bytes(<<>>)) : s \in Statuses}
    /\ pc' = "responded"
    /\ UNCHANGED <<call, request, result, blocks, idVars, streamVars>>

\* name_resolve_streaming, after send()
ReturnNameResolveStreaming ==
    /\ pc = "responded"
    /\ call.fn = "name_resolve_streaming"
    /\ result' = NameResolveResult(response)
    /\ pc' = "returned"
    /\ UNCHANGED <<call, request, response, blocks, idVars, streamVars>>

\* put_block, up to send()
CallPutBlock ==
    /\ pc = "idle"
    /\ \E data \in BlockData :
          /\ call' = [fn |-> "put_block", data |-> data]
          /\ request' = PostForm("/api/v0/block/put",
                               <<[name |-> "data", file_name |-> "block.data", bytes |-> data]>>)
    /\ pc' = "sent"
    /\ UNCHANGED <<response, result, blocks, idVars, streamVars>>

\* the daemon answers /api/v0/block/put
DaemonBlockPut ==
    /\ pc = "sent"
    /\ call.fn = "put_block"
    /\ LET data == request.form[1].bytes
       IN \/ /\ response' \in BlockPutStored(data)
             /\ blocks' = blocks \cup {data}
          \/ /\ response' \in BlockPutRefused
             /\ UNCHANGED blocks
    /\ pc' = "responded"
    /\ UNCHANGED <<call, request, result, idVars, streamVars>>

\* put_block, after send()
ReturnPutBlock ==
    /\ pc = "responded"
    /\ call.fn = "put_block"
    /\ result' = PutBlockResult(response)
    /\ pc' = "returned"
    /\ UNCHANGED <<call, request, response, blocks, idVars, streamVars>>

\* get_block of the identifier put_block returned, up to send(); the call
\* keeps the bytes that were stored.
CallGetBlockOfPut ==
    /\ pc = "returned"
    /\ call.fn = "put_block"
    /\ result.ok
    /\ LET arg == IpfsCidFmt(result.val)
       IN /\ call' = [fn |-> "get_block", cid |-> result.val, stored |-> call.data]
          /\ Send("/api/v0/block/get", arg, <<<<"arg", arg.val>>>>)
    /\ response' = None
    /\ UNCHANGED <<blocks, idVars, streamVars>>

NextRpc ==
    \/ CallGetBlock
    \/ DaemonBlockGet
    \/ ReturnGetBlock
    \/ CallGenerateIpnsKey
    \/ DaemonKeyGen
    \/ ReturnGenerateIpnsKey
    \/ CallNameResolveStreaming
    \/ DaemonNameResolve
    \/ ReturnNameResolveStreaming
    \/ CallPutBlock
    \/ DaemonBlockPut
    \/ ReturnPutBlock
    \/ CallGetBlockOfPut

SpecRpc == InitRpc /\ [][NextRpc]_vars

(***************************************************************************)
(* Properties of the calls.                                                *)
(***************************************************************************)
Returned(fn) == pc = "returned" /\ call.fn = fn

\* The blocks of the daemon that the requested identifier names.
Requested == {d \in blocks : DaemonCid(d).hash = call.cid.cid.hash}

\* C7: get_block returns an error whenever the daemon does not supply the
\* requested block (it reports a failure, or does not answer), and what it
\* returns as Ok is never anything but the content of that block.
C7_MissingBlockIsError ==
    Returned("get_block") =>
        /\ Requested = {} => ~result.ok
        /\ result.ok => result.val \in {Bytes(d) : d \in Requested}

\* A request of name_resolve_streaming was built.
ResolveBuilt ==
    /\ pc # "idle"
    /\ call.fn = "name_resolve_streaming"
    /\ IpnsKeyFmt(call.name).ok

\* The parameter `key` is carried once with the text of the option's value
\* when the option is Some, and not at all when it is None.
PassedThrough(key, option, value) ==
    /\ Param(request.query, key) = (IF option.some THEN Some(value) ELSE Absent)
    /\ ParamCount(request.query, key) = (IF option.some THEN 1 ELSE 0)

\* arg is carried once and is the base36 text of the name.
CarriesArg ==
    LET arg == Param(request.query, "arg")
    IN /\ ParamCount(request.query, "arg") = 1
       /\ Head(arg.v) = "k"
       /\ IpnsKeyFromStr(arg.v) = Ok(call.name)

\* recursive, nocache, dht-record-count and dht-timeout are carried exactly
\* when supplied, with the supplied value, and nothing else is carried.
CarriesOptions ==
    /\ PassedThrough("recursive", call.recursive, BoolText(call.recursive.v))
    /\ PassedThrough("nocache", call.nocache, BoolText(call.nocache.v))
    /\ PassedThrough("dht-record-count", call.dht_record_count,
                     DecimalText(call.dht_record_count.v))
    /\ PassedThrough("dht-timeout", call.dht_timeout, call.dht_timeout.v)
    /\ \A i \in 1..Len(request.query) :
          request.query[i][1] \in {"arg", "stream", "recursive", "nocache", "dht-record-count",
                                   "dht-timeout"}

\* C9 as claimed: the request carries arg, and each of the five options
\* exactly when the caller supplied it, with the supplied value; stream,
\* which every caller supplies, is carried as true or as false.
C9_OptionsPassedThrough ==
    ResolveBuilt =>
        /\ CarriesArg
        /\ CarriesOptions
        /\ PassedThrough("stream", Some(call.stream), BoolText(call.stream))

\* C9 as amended: the request carries arg; recursive, nocache,
\* dht-record-count and dht-timeout exactly when the caller supplied them,
\* with the supplied value; and stream=true exactly when the stream flag is
\* true: a false stream flag is not carried at all.
C9_StreamOnlyWhenTrue ==
    ResolveBuilt =>
        /\ CarriesArg
        /\ CarriesOptions
        /\ PassedThrough("stream", IF call.stream THEN Some(TRUE) ELSE Absent, TrueText)

\* C9 witness: every option supplied, and the request carries all six.
C9_Witness ==
    /\ pc = "sent"
    /\ call.fn = "name_resolve_streaming"
    /\ call.stream
    /\ call.recursive = Some(FALSE)
    /\ call.nocache = Some(TRUE)
    /\ call.dht_record_count = Some(MaxCount)
    /\ call.dht_timeout = Some(<<"3", "0", "s">>)
    /\ Len(request.query) = 6
    /\ request.query[4] = <<"nocache", TrueText>>

\* The body is a JSON object of exactly these fields.
IsObject(content, fields) == content.type = "json" /\ DOMAIN content.doc = fields

\* C10 as claimed: on a success status (2xx) with body {Name, Id} the call
\* returns the Id as an IpnsKey if Id is the text of a name and an error if
\* it is not; on every other status it returns an error, which carries the
\* Message of the daemon's error body {Message, Code, Type}.
C10_OutcomeBySuccessStatus ==
    (Returned("generate_ipns_key") /\ response.kind = "http") =>
        LET success == response.status \in 200..299
            content == response.body
        IN /\ (success /\ IsObject(content, {"Name", "Id"})) =>
                  LET id == IpnsKeyFromStr(content.doc.Id)
                  IN /\ result.ok <=> id.ok
                     /\ result.ok => result.val = id.val
           /\ ~success =>
                  /\ ~result.ok
                  /\ IsObject(content, {"Message", "Code", "Type"}) =>
                         result.err.detail = content.doc.Message

\* C10 as amended: on status 200 with body {Name, Id} the call returns the
\* Id as an IpnsKey if Id is the text of a name (codec 0x72), and an error
\* if it is not or if the body is anything else; on every other status,
\* 2xx or not, and when no response comes, it returns an error; that error
\* carries the Message of a body {Message, Code, Type} and the text
\* "Unknown error" for any other body.
C10_OutcomeByStatusOK ==
    Returned("generate_ipns_key") =>
        IF response.kind # "http" THEN ~result.ok
        ELSE LET content == response.body
             IN IF response.status = StatusOK
                THEN IF IsObject(content, {"Name", "Id"})
                     THEN LET id == IpnsKeyFromStr(content.doc.Id)
                          IN /\ result.ok <=> id.ok
                             /\ result.ok => result.val = id.val /\ ValidIpnsKey(result.val)
                     ELSE ~result.ok
                ELSE /\ ~result.ok
                     /\ result.err.what = "IPFS key generation failed"
                     /\ result.err.detail =
                            (IF IsObject(content, {"Message", "Code", "Type"})
                             THEN content.doc.Message ELSE "Unknown error")

\* C10 witness: status 200 with the key of the tests of keys.rs as Id, and
\* the call returned that key.
C10_Witness ==
    /\ Returned("generate_ipns_key")
    /\ response = Http(StatusOK, Json([Name |-> <<"k", "1">>, Id |-> TestKeyText]))
    /\ result.ok
    /\ result.val.cid.codec = LIBP2P_KEY_CODE
    /\ IpnsKeyFmt(result.val) = Ok(TestKeyText)

\* The texts of the content identifiers of the blocks there may be: an
\* identifier of codec 0x55 or 0x70 over the block's multihash, written in
\* any base.
ContentIdTexts ==
    {MultibaseEncode(b, CidToBytes(CidV1(codec, DaemonCid(d).hash))) :
        b \in BaseCodes \cup KeyBases, codec \in {Raw, DagPb}, d \in BlockData}

\* C11: against a daemon that stores blocks under their content identifier
\* and answers the requests it gets: if put_block of the bytes b returned
\* Ok(c), then c is a valid content identifier, the one of b, and get_block
\* of c returns Ok with exactly the bytes b (and whenever it returns Ok, it
\* is with b); put_block returns an error when the Key of the daemon's
\* response is not the text of a content identifier.
C11_StoreThenFetch ==
    /\ (Returned("put_block") /\ result.ok) =>
           /\ ValidIpfsCid(result.val)
           /\ result.val = IpfsCid(DaemonCid(call.data))
           /\ call.data \in blocks
    /\ (Returned("get_block") /\ "stored" \in DOMAIN call) =>
           /\ result.ok => result.val = Bytes(call.stored)
           /\ (response.kind = "http" /\ response.body # Aborted) =>
                  result = Ok(Bytes(call.stored))
    /\ (Returned("put_block") /\ response.kind = "http"
          /\ IsObject(response.body, {"Key", "Size"})
          /\ response.body.doc.Key \notin ContentIdTexts) => ~result.ok

\* C11 witness: two bytes were stored, the daemon named them in base32,
\* and get_block of the identifier returned the two bytes.
C11_Witness ==
    /\ Returned("get_block")
    /\ "stored" \in DOMAIN call
    /\ call.stored = <<1, 2>>
    /\ call.cid = IpfsCid(CidFromStr(<<"b", "a", "f", "k", "q", "a", "a", "q", "b", "a", "i">>).val)
    /\ Head(Param(request.query, "arg").v) = "z"
    /\ result = Ok(Bytes(<<1, 2>>))

====
